---- MODULE Spec2Model ----
(***************************************************************************)
(* Stock signal engine: the rules-based aggregator, the notification gate  *)
(* and the scheduler, modelled from the two source trees of the            *)
(* repository:                                                             *)
(*   "bot"  : .gemini/antigravity/stock-signal-bot/src (rules.ts, kv.ts,   *)
(*            workers/signal.ts) with its notifier + scheduler             *)
(*            (unnamed/part_006);                                          *)
(*   "root" : the repository's own src tree (models/indicators.ts, which   *)
(*            also holds the simplified rules) with its notifier           *)
(*            (unnamed/part_011), signal worker (unnamed/part_012) and     *)
(*            scheduler (unnamed/part_013).                                *)
(* Probabilities, confidences and Sharpe ratios are integers in            *)
(* thousandths (0.6 is 600).                                               *)
(***************************************************************************)
EXTENDS Integers, Sequences, FiniteSets, TLC

VARIABLES
    build,      \* which source tree is deployed: "bot" or "root"
    rin,        \* rules: the inputs handed to aggregateSignals
    decision,   \* rules: the SignalResult aggregateSignals returned, or NoDecision
    previous,   \* rules: the stored previous SignalResult handed to shouldNotify
    sig,        \* rules: the SignalResult handed to shouldNotify, or NoSignal
    notify,     \* rules: what shouldNotify returned, or "none" before it ran
    emergencyStop,  \* kv  system:emergency_stop  is 'true'
    dailyCount,     \* kv  notify:count:<today>   (0 when the key is absent)
    cooldown,       \* kv  notify:cooldown:<id>   is present
    notifyState,    \* kv  notify:state:<id>      ("null" when absent)
    day,            \* the UTC date, counted from the first day
    clock,          \* today's daily-summary times (07:00, 22:00 UTC) already passed
    recentSends,    \* per instrument: successful signal sends less than cooldownHours old
    keyCovers,      \* per instrument: how many of those precede the latest setCooldown
    counted,        \* notifications counted against today (incrementDailyNotifyCount done)
    quotaHit,       \* today a qualifying signal met dailyCount >= MAX at a quota check
    stopSetToday,   \* today setEmergencyStop(true) ran
    limitAlerts,    \* today's "Daily Limit Reached" alerts the transport accepted
    runs,           \* invocations started (bounded in the overlapping specification)
    faults,         \* store calls that threw so far
    proc,           \* per invocation slot: where the handler is and its locals
    now,            \* scheduler: the instant of the invocation (UTC weekday, hour, minute)
    ran,            \* scheduler: the job handleCronTrigger ran at that instant, or "none"
    bars,           \* signal worker: bars getDailyPrices returned for the instrument
    snapshot,       \* kv  signal:prev:<id>  (NoPrevious when absent or expired)
    effects,        \* signal worker: what the latest pass over the instrument did
    failed,         \* the SignalResult of the latest attempt if the transport refused it
    fresh,          \* no Decision has been computed for the instrument since that attempt
    prior,          \* signal worker: what the pass before the latest one decided
    closes,         \* indicators: the close series handed to sma / rsi
    period,         \* indicators: the period handed to sma
    out             \* indicators: the function applied and what it returned, or NoOut

rulesVars == <<rin, decision, previous, sig, notify>>
kvVars    == <<emergencyStop, dailyCount, cooldown, notifyState>>
timeVars  == <<day, clock, recentSends, keyCovers>>
ghostVars == <<counted, quotaHit, stopSetToday, limitAlerts>>
gateVars  == <<kvVars, timeVars, ghostVars, runs, faults, proc>>
clockVars == <<now, ran>>
tickVars  == <<bars, snapshot, effects, failed, fresh, prior>>
indVars   == <<closes, period, out>>
vars      == <<build, rulesVars, gateVars, clockVars, tickVars, indVars>>

Builds == {"bot", "root"}

NoDecision ==
    [action |-> "NONE", confidence |-> 0, buyScore |-> 0, sellScore |-> 0,
     warnings |-> <<>>]
NoPrevious == [action |-> "NULL"]
NoSignal   == [action |-> "NONE", confidence |-> 0]

(***************************************************************************)
(* kv.ts: DEFAULT_THRESHOLDS, and one override written to config:thresholds *)
(* (getThresholds merges the stored object over the defaults).             *)
(***************************************************************************)
DEFAULT_THRESHOLDS ==
    [l1MinProbability |-> 600, l2MinProbability |-> 600, l3MinSharpe |-> 500,
     cooldownHours |-> 24, hysteresisBuffer |-> 50]

OverrideThresholds ==
    [l1MinProbability |-> 550, l2MinProbability |-> 700, l3MinSharpe |-> -400,
     cooldownHours |-> 24, hysteresisBuffer |-> 100]

ThresholdChoices == {DEFAULT_THRESHOLDS, OverrideThresholds}

(***************************************************************************)
(* helpers.ts round(value, 2) of a half-sum of two thousandths: the        *)
(* result is a multiple of 10 thousandths, halves rounded up (Math.round). *)
(***************************************************************************)
roundHalfSum(a, b) == ((a + b + 10) \div 20) * 10

(***************************************************************************)
(* L3-expected.ts: isAdvantage is derived from the Sharpe ratio.           *)
(***************************************************************************)
calculateL3(sharpe) == [sharpeRatio |-> sharpe, isAdvantage |-> sharpe > 500]

(***************************************************************************)
(* L4-trend.ts: the (state, signal, confidence) triples calculateL4's      *)
(* decision table can return.                                              *)
(***************************************************************************)
L4Outputs ==
    { [state |-> "RANGE",     signal |-> "CONTINUE",      confidence |-> 500],
      [state |-> "RANGE",     signal |-> "REVERSAL_UP",   confidence |-> 550],
      [state |-> "RANGE",     signal |-> "REVERSAL_DOWN", confidence |-> 450],
      [state |-> "UPTREND",   signal |-> "CONTINUE",      confidence |-> 700],
      [state |-> "UPTREND",   signal |-> "REVERSAL_DOWN", confidence |-> 600],
      [state |-> "DOWNTREND", signal |-> "CONTINUE",      confidence |-> 550],
      [state |-> "DOWNTREND", signal |-> "REVERSAL_UP",   confidence |-> 700] }

L1Probabilities == {400, 510, 600, 725}
L2Probabilities == {400, 600, 690, 700}
SharpeRatios    == {-600, -500, -400, -300, 0, 500, 510}

(* L2-downside.ts line 34 keeps l2.targetPct (percent) within 5 .. 30.     *)
TargetPcts == {5, 10}

MaxEvents == 3    \* upcoming events of importance >= 2 handed to the rules

(* events is the number of upcomingEvents whose importance is >= 2 (the    *)
(* others add no warning).                                                 *)
RuleInputs ==
    [l1 : L1Probabilities, l2 : L2Probabilities, sharpe : SharpeRatios,
     l4 : L4Outputs, thresholds : ThresholdChoices, isHolding : BOOLEAN,
     targetPct : TargetPcts, events : 0..MaxEvents]

Count(conds) == Cardinality({i \in DOMAIN conds : conds[i]})

(***************************************************************************)
(* rules.ts aggregateSignals, lines 92-106: the two condition lists.       *)
(***************************************************************************)
buyConditions(in) ==
    LET l3 == calculateL3(in.sharpe) IN
    << in.l1 >= in.thresholds.l1MinProbability,
       l3.isAdvantage \/ l3.sharpeRatio >= in.thresholds.l3MinSharpe,
       in.l4.state = "UPTREND" \/ in.l4.signal = "REVERSAL_UP" >>

sellConditions(in) ==
    LET l3 == calculateL3(in.sharpe) IN
    << in.l2 >= in.thresholds.l2MinProbability,
       l3.sharpeRatio < -300,
       in.l4.state = "DOWNTREND" \/ in.l4.signal = "REVERSAL_DOWN" >>

(* Variant: BUY and SELL as soon as one condition of the side is met.      *)
determineActionLoose(buyScore, sellScore, in) ==
    IF buyScore >= 1 /\ sellScore < 2
        THEN [action |-> "BUY",  confidence |-> roundHalfSum(in.l1, in.l4.confidence)]
    ELSE IF sellScore >= 1 /\ buyScore < 2
        THEN [action |-> "SELL", confidence |-> roundHalfSum(in.l2, in.l4.confidence)]
    ELSE [action |-> "HOLD", confidence |-> 500]

(* Variant: WATCH only when exactly one side has a condition met.          *)
determineActionExactlyOne(buyScore, sellScore, in) ==
    IF buyScore >= 2 /\ sellScore < 2
        THEN [action |-> "BUY",  confidence |-> roundHalfSum(in.l1, in.l4.confidence)]
    ELSE IF sellScore >= 2 /\ buyScore < 2
        THEN [action |-> "SELL", confidence |-> roundHalfSum(in.l2, in.l4.confidence)]
    ELSE IF (buyScore >= 1) # (sellScore >= 1)
        THEN [action |-> "WATCH", confidence |-> 500]
    ELSE [action |-> "HOLD", confidence |-> 500]

(***************************************************************************)
(* rules.ts aggregateSignals, lines 108-122: the if / else-if chain.       *)
(***************************************************************************)
determineAction(buyScore, sellScore, in) ==
    IF buyScore >= 2 /\ sellScore < 2
        THEN [action |-> "BUY",  confidence |-> roundHalfSum(in.l1, in.l4.confidence)]
    ELSE IF sellScore >= 2 /\ buyScore < 2
        THEN [action |-> "SELL", confidence |-> roundHalfSum(in.l2, in.l4.confidence)]
    ELSE IF buyScore >= 1 \/ sellScore >= 1
        THEN [action |-> "WATCH", confidence |-> 500]
    ELSE [action |-> "HOLD", confidence |-> 500]

(* Variant: the holding override asks for both guards to fail.             *)
applyOverridesBothGuards(action, buyScore, sellScore, in) ==
    LET a1 == IF buyScore >= 2 /\ sellScore >= 2 THEN "WATCH" ELSE action
    IN  IF in.isHolding /\ a1 = "SELL" /\ (in.l2 < 700 /\ in.sharpe > -500)
            THEN "WATCH"
            ELSE a1

(***************************************************************************)
(* rules.ts aggregateSignals, lines 124-137: the conflict override and the *)
(* holding override, applied in this order to the action chosen above.     *)
(***************************************************************************)
applyOverrides(action, buyScore, sellScore, in) ==
    LET a1 == IF buyScore >= 2 /\ sellScore >= 2 THEN "WATCH" ELSE action
    IN  IF in.isHolding /\ a1 = "SELL" /\ (in.l2 < 700 \/ in.sharpe > -500)
            THEN "WATCH"
            ELSE a1

(***************************************************************************)
(* rules.ts aggregateSignals, lines 71-82 and 127: the warnings in the     *)
(* order they are pushed.  One per upcoming event of importance >= 2; then *)
(* the drawdown warning when round(l2.targetPct * l2.probability, 1) > 5,  *)
(* that is when targetPct * probability >= 5.05 (5050 in thousandths of a  *)
(* percent); then the conflict warning.                                    *)
(***************************************************************************)
collectWarnings(buyScore, sellScore, in) ==
    [i \in 1..in.events |-> "event"]
        \o (IF in.targetPct * in.l2 >= 5050 THEN <<"maxDrawdown">> ELSE <<>>)
        \o (IF buyScore >= 2 /\ sellScore >= 2 THEN <<"conflict">> ELSE <<>>)

(* Array.prototype.slice(0, n) *)
slice(s, n) == IF Len(s) <= n THEN s ELSE SubSeq(s, 1, n)

(* rules.ts aggregateSignals, lines 92-152 *)
aggregateSignals(in) ==
    LET buyScore  == Count(buyConditions(in))
        sellScore == Count(sellConditions(in))
        first     == determineAction(buyScore, sellScore, in)
    IN  [action     |-> applyOverrides(first.action, buyScore, sellScore, in),
         confidence |-> first.confidence,
         buyScore   |-> buyScore,
         sellScore  |-> sellScore,
         warnings   |-> slice(collectWarnings(buyScore, sellScore, in), 3)]

(***************************************************************************)
(* src/models/indicators.ts aggregateSignals, lines 42-56 (the root tree's *)
(* simplified rules): no condition is evaluated.                           *)
(***************************************************************************)
aggregateSignalsRoot(in) ==
    [action |-> "HOLD", confidence |-> 0, buyScore |-> 0, sellScore |-> 0,
     warnings |-> <<>>]

gateAggregate(b, in) ==
    IF b = "bot" THEN aggregateSignals(in) ELSE aggregateSignalsRoot(in)

(* Variant: a BUY or SELL is notified only when the action changed.        *)
shouldNotifyOnChange(current, prev, thresholds) ==
    IF current.action \in {"BUY", "SELL"} THEN
        IF prev.action # "NULL" /\ current.action = "BUY" /\ prev.action = "SELL"
            THEN current.confidence > 500 + thresholds.hysteresisBuffer
        ELSE IF prev.action # "NULL" /\ current.action = "SELL" /\ prev.action = "BUY"
            THEN current.confidence > 500 + thresholds.hysteresisBuffer
        ELSE prev.action # current.action /\ current.confidence >= 500
    ELSE IF current.action = "WATCH" THEN prev.action # "WATCH"
    ELSE FALSE

(* Variant: a WATCH is notified whatever the previous action was.          *)
shouldNotifyEveryWatch(current, prev, thresholds) ==
    IF current.action \in {"BUY", "SELL"} THEN
        IF prev.action # "NULL" /\ current.action = "BUY" /\ prev.action = "SELL"
            THEN current.confidence > 500 + thresholds.hysteresisBuffer
        ELSE IF prev.action # "NULL" /\ current.action = "SELL" /\ prev.action = "BUY"
            THEN current.confidence > 500 + thresholds.hysteresisBuffer
        ELSE current.confidence >= 500
    ELSE IF current.action = "WATCH" THEN TRUE
    ELSE FALSE

(***************************************************************************)
(* rules.ts shouldNotify, lines 202-230 (the bot tree's gate predicate).   *)
(***************************************************************************)
shouldNotify(current, prev, thresholds) ==
    IF current.action \in {"BUY", "SELL"} THEN
        IF prev.action # "NULL" /\ current.action = "BUY" /\ prev.action = "SELL"
            THEN current.confidence > 500 + thresholds.hysteresisBuffer
        ELSE IF prev.action # "NULL" /\ current.action = "SELL" /\ prev.action = "BUY"
            THEN current.confidence > 500 + thresholds.hysteresisBuffer
        ELSE current.confidence >= 500
    ELSE IF current.action = "WATCH" THEN prev.action # "WATCH"
    ELSE FALSE

(***************************************************************************)
(* src/models/indicators.ts shouldNotify, lines 58-63 (the root tree's).   *)
(***************************************************************************)
shouldNotifyRoot(signal, prevSignal, thresholds) ==
    IF signal.action = "HOLD" THEN FALSE
    ELSE IF prevSignal.action = "NULL" THEN TRUE
    ELSE IF signal.action # prevSignal.action THEN TRUE
    ELSE FALSE

gateShouldNotify(b, current, prev, thresholds) ==
    IF b = "bot" THEN shouldNotify(current, prev, thresholds)
                 ELSE shouldNotifyRoot(current, prev, thresholds)

PreviousChoices ==
    {NoPrevious} \cup {[action |-> a] : a \in {"BUY", "SELL", "WATCH", "HOLD"}}

(* SignalResults shouldNotify is called with directly *)
Confidences   == {0, 490, 500, 530, 550, 560, 600, 610, 900}
SignalChoices ==
    [action : {"BUY", "SELL", "WATCH", "HOLD"}, confidence : Confidences]

SignalOf(d) == [action |-> d.action, confidence |-> d.confidence]

(***************************************************************************)
(* The notification gate.                                                  *)
(*                                                                         *)
(* Time is abstract.  A successful signal send to an instrument stays      *)
(* "recent" for cooldownHours; WindowEnd lets the oldest recent send age   *)
(* out.  The cooldown key lives for the same duration from its put, so it  *)
(* cannot expire while a send that preceded the put is still recent        *)
(* (keyCovers counts those sends).  NewDay changes the UTC date, after     *)
(* which the day's counter key is a fresh one.                             *)
(***************************************************************************)
MAX_NOTIFICATIONS_PER_DAY == 50

(* handleCronTrigger sends a daily summary at 07:00 and at 22:00 UTC       *)
(* (part_006 lines 273-279, part_013 lines 43-56).                         *)
SummaryTimes == 2

Symbols     == {"s1", "s2"}
SymbolOrder == <<"s1", "s2">>      \* the order getAllSymbols returns
Procs       == {1, 2}

MaxDay          == 1    \* UTC dates modelled: 0 .. MaxDay
SummaryHeadroom == 2    \* invocations start while dailyCount < MAX + SummaryHeadroom
RootCountCap    == 3    \* root invocations start while dailyCount < RootCountCap
MaxRuns         == 3    \* invocations started in the overlapping specification
MaxFaults       == 1    \* store calls that may throw in the store-fault specification
MaxRecent       == 3    \* recent sends tracked per instrument

NoRow == [symbolId |-> "-", action |-> "-", success |-> FALSE, error |-> "-"]

IdleProc ==
    [pc |-> "idle", job |-> "none", todo |-> <<>>, resp |-> "none",
     n |-> 0, nday |-> 0, logged |-> NoRow]

(* sendPushMessage (utils/line.ts) resolves to {success: true} or to       *)
(* {success: false, error}; it never throws.                               *)
Responses == {"ok", "fail"}
ErrorOf(resp) == IF resp = "ok" THEN "null" ELSE "LINE API error"

(* insertNotificationLog(db, symbolId, action, message, success, error)    *)
LogRow(symbolId, action, resp) ==
    [symbolId |-> symbolId, action |-> action,
     success |-> (resp = "ok"), error |-> ErrorOf(resp)]

(***************************************************************************)
(* What generateAllSignals can hand back: per instrument nothing (skipped) *)
(* or one result {signal.action, shouldNotify}, in getAllSymbols order.    *)
(* Instrument s1 is on a buy setup and s2 on a sell setup.                 *)
(***************************************************************************)
Setup(s) == IF s = "s1" THEN "BUY" ELSE "SELL"

ResultChoices(s) ==
    { [symbolId |-> s, action |-> "NONE", shouldNotify |-> FALSE],
      [symbolId |-> s, action |-> "HOLD", shouldNotify |-> FALSE],
      [symbolId |-> s, action |-> "WATCH", shouldNotify |-> TRUE],
      [symbolId |-> s, action |-> Setup(s), shouldNotify |-> FALSE],
      [symbolId |-> s, action |-> Setup(s), shouldNotify |-> TRUE] }

(* choices maps each instrument to the results it may yield *)
ListsFrom(choices) ==
    { SelectSeq([i \in 1..Len(SymbolOrder) |-> f[SymbolOrder[i]]],
                LAMBDA r : r.action # "NONE") :
        f \in { g \in [Symbols -> UNION {choices[s] : s \in Symbols}] :
                  \A s \in Symbols : g[s] \in choices[s] } }

ResultLists == ListsFrom([s \in Symbols |-> ResultChoices(s)])

(***************************************************************************)
(* The root tree's generateAllSignals (part_012 lines 24-47): per          *)
(* instrument nothing (skipped), or the result of its own aggregateSignals *)
(* and shouldNotify, whatever snapshot is stored.                          *)
(***************************************************************************)
RootResultChoices(s) ==
    { [symbolId |-> s, action |-> "NONE", shouldNotify |-> FALSE] } \cup
    { [symbolId     |-> s,
       action       |-> aggregateSignalsRoot(in).action,
       shouldNotify |-> shouldNotifyRoot(SignalOf(aggregateSignalsRoot(in)),
                                         prev, in.thresholds)] :
        in \in RuleInputs, prev \in PreviousChoices }

RootResultLists == ListsFrom([s \in Symbols |-> RootResultChoices(s)])

IsNotify(r) == r.shouldNotify

(* Variant: the monitoring job keeps every result to notify.               *)
IsActionableAnyAction(r) == r.shouldNotify

(* scheduler (part_006:325-327): the monitoring job keeps BUY and SELL.    *)
IsActionable(r) == r.shouldNotify /\ r.action \in {"BUY", "SELL"}

Strip(r) == [symbolId |-> r.symbolId, action |-> r.action]
StripAll(rs) == [i \in 1..Len(rs) |-> Strip(rs[i])]

RulesFrame == UNCHANGED <<build, rulesVars, clockVars, tickVars, indVars>>

AllIdle == \A q \in Procs : proc[q].pc = "idle"

Set(p, r) == proc' = [proc EXCEPT ![p] = r]
Goto(p, label) == Set(p, [proc[p] EXCEPT !.pc = label])
Return(p) == Set(p, IdleProc)

GateQuiet ==
    /\ emergencyStop = FALSE
    /\ dailyCount = 0
    /\ cooldown = [s \in Symbols |-> FALSE]
    /\ notifyState = [s \in Symbols |-> "null"]
    /\ day = 0
    /\ clock = 0
    /\ recentSends = [s \in Symbols |-> 0]
    /\ keyCovers = [s \in Symbols |-> 0]
    /\ counted = 0
    /\ quotaHit = FALSE
    /\ stopSetToday = FALSE
    /\ limitAlerts = 0
    /\ runs = 0
    /\ faults = 0
    /\ proc = [p \in Procs |-> IdleProc]

(***************************************************************************)
(* scheduler (part_006) handleCronTrigger, lines 257-282: the wall clock   *)
(* routes the invocation to a daily summary job or to the monitoring job   *)
(* (which goes on only while a market is open).                            *)
(***************************************************************************)
BotStart(p) ==
    /\ build = "bot"
    /\ proc[p].pc = "idle"
    /\ dailyCount < MAX_NOTIFICATIONS_PER_DAY + SummaryHeadroom
    /\ \/ /\ Set(p, [IdleProc EXCEPT !.job = "monitor", !.pc = "mon_stop"])
          /\ clock' = clock
       \/ /\ clock < SummaryTimes
          /\ Set(p, [IdleProc EXCEPT !.job = "summary", !.pc = "sum_fetch"])
          /\ clock' = clock + 1
    /\ UNCHANGED <<kvVars, day, recentSends, keyCovers, ghostVars, faults>>
    /\ RulesFrame

(* runMonitoringJob, lines 312-316 *)
MonCheckStop(p) ==
    /\ proc[p].pc = "mon_stop"
    /\ IF emergencyStop THEN Return(p) ELSE Goto(p, "mon_signals")
    /\ UNCHANGED <<kvVars, timeVars, ghostVars, runs, faults>>
    /\ RulesFrame

(* runMonitoringJob, lines 318-331: fetch, generate, keep the actionable *)
MonSignals(p) ==
    /\ proc[p].pc = "mon_signals"
    /\ \E results \in ResultLists :
          LET actionable == SelectSeq(results, IsActionable) IN
          IF Len(actionable) > 0
              THEN Set(p, [proc[p] EXCEPT !.pc = "n_stop",
                                          !.todo = StripAll(actionable)])
              ELSE Return(p)
    /\ UNCHANGED <<kvVars, timeVars, ghostVars, runs, faults>>
    /\ RulesFrame

(* sendSignalNotifications, lines 31-35 *)
NotifierCheckStop(p) ==
    /\ proc[p].pc = "n_stop"
    /\ IF emergencyStop THEN Return(p) ELSE Goto(p, "n_count")
    /\ UNCHANGED <<kvVars, timeVars, ghostVars, runs, faults>>
    /\ RulesFrame

(* sendSignalNotifications, lines 37-53 *)
NotifierCheckLimit(p) ==
    /\ proc[p].pc = "n_count"
    /\ IF dailyCount >= MAX_NOTIFICATIONS_PER_DAY
          THEN Goto(p, "n_setstop") /\ quotaHit' = TRUE
          ELSE Goto(p, "loop") /\ quotaHit' = quotaHit
    /\ UNCHANGED <<kvVars, timeVars, counted, stopSetToday, limitAlerts, runs, faults>>
    /\ RulesFrame

(* sendSignalNotifications, line 41; kv.ts setEmergencyStop(true) *)
SetStop(p) ==
    /\ proc[p].pc = "n_setstop"
    /\ emergencyStop' = TRUE
    /\ stopSetToday' = TRUE
    /\ Goto(p, "alert_send")
    /\ UNCHANGED <<dailyCount, cooldown, notifyState, timeVars,
                   counted, quotaHit, limitAlerts, runs, faults>>
    /\ RulesFrame

(* sendAlert, lines 187-194 *)
AlertSend(p) ==
    /\ proc[p].pc = "alert_send"
    /\ \E r \in Responses :
          /\ Set(p, [proc[p] EXCEPT !.pc = "alert_log", !.resp = r])
          /\ limitAlerts' = IF r = "ok" /\ limitAlerts < 2
                               THEN limitAlerts + 1 ELSE limitAlerts
    /\ UNCHANGED <<kvVars, timeVars, counted, quotaHit, stopSetToday, runs, faults>>
    /\ RulesFrame

(* sendAlert, lines 196-205, then sendSignalNotifications returns (46) *)
AlertLog(p) ==
    /\ proc[p].pc = "alert_log"
    /\ Return(p)
    /\ UNCHANGED <<kvVars, timeVars, ghostVars, runs, faults>>
    /\ RulesFrame

(***************************************************************************)
(* The notification loop: part_006 lines 55-100 (bot), part_011 lines      *)
(* 14-25 (root).  todo holds the results not yet processed; its head is    *)
(* the one being processed.                                                *)
(***************************************************************************)
NextResult(p) == Set(p, [proc[p] EXCEPT !.pc = "loop", !.todo = Tail(@),
                                        !.resp = "none", !.logged = NoRow])

(* Variant: the cooldown key is not consulted.                             *)
LoopCooldownIgnored(p) ==
    /\ proc[p].pc = "loop"
    /\ IF proc[p].todo = <<>> THEN Return(p)
       ELSE Goto(p, IF build = "bot" THEN "quota" ELSE "send")
    /\ UNCHANGED <<kvVars, timeVars, ghostVars, runs, faults>>
    /\ RulesFrame

(* isInCooldown: part_006 lines 58-62, part_011 line 15 *)
LoopCooldown(p) ==
    /\ proc[p].pc = "loop"
    /\ IF proc[p].todo = <<>> THEN Return(p)
       ELSE IF cooldown[Head(proc[p].todo).symbolId] THEN NextResult(p)
       ELSE Goto(p, IF build = "bot" THEN "quota" ELSE "send")
    /\ UNCHANGED <<kvVars, timeVars, ghostVars, runs, faults>>
    /\ RulesFrame

(* part_006 lines 64-68: the remaining daily quota; break when used up *)
LoopQuota(p) ==
    /\ proc[p].pc = "quota"
    /\ IF dailyCount >= MAX_NOTIFICATIONS_PER_DAY
          THEN Return(p) /\ quotaHit' = TRUE
          ELSE Goto(p, "send") /\ quotaHit' = quotaHit
    /\ UNCHANGED <<kvVars, timeVars, counted, stopSetToday, limitAlerts, runs, faults>>
    /\ RulesFrame

(* sendPushMessage: part_006 lines 72-77, part_011 lines 17-18 *)
Send(p) ==
    /\ proc[p].pc = "send"
    /\ \E r \in Responses :
          LET s == Head(proc[p].todo).symbolId IN
          /\ Set(p, [proc[p] EXCEPT !.pc = "log", !.resp = r])
          /\ recentSends' = IF r = "ok" /\ recentSends[s] < MaxRecent
                               THEN [recentSends EXCEPT ![s] = @ + 1]
                               ELSE recentSends
          /\ failed' = IF r = "fail" THEN sig ELSE NoSignal
          /\ fresh' = (r = "fail" /\ sig # NoSignal)
    /\ UNCHANGED <<kvVars, day, clock, keyCovers, ghostVars, runs, faults>>
    /\ UNCHANGED <<build, rulesVars, clockVars, bars, snapshot, effects, prior, indVars>>

(* insertNotificationLog: part_006 lines 80-87, part_011 line 20 *)
LogInsert(p) ==
    /\ proc[p].pc = "log"
    /\ LET cur == Head(proc[p].todo) IN
       Set(p, [proc[p] EXCEPT !.pc = "after_log",
                   !.logged = LogRow(cur.symbolId, cur.action, proc[p].resp)])
    /\ UNCHANGED <<kvVars, timeVars, ghostVars, runs, faults>>
    /\ RulesFrame

(* Variant: the cooldown and the counter follow every attempt.             *)
AfterLogAlways(p) ==
    /\ proc[p].pc = "after_log"
    /\ Goto(p, "setcd")
    /\ UNCHANGED <<kvVars, timeVars, ghostVars, runs, faults>>
    /\ RulesFrame

(* if (response.success): part_006 lines 89-96, part_011 line 21 *)
AfterLog(p) ==
    /\ proc[p].pc = "after_log"
    /\ IF proc[p].resp = "ok" THEN Goto(p, "setcd") ELSE NextResult(p)
    /\ UNCHANGED <<kvVars, timeVars, ghostVars, runs, faults>>
    /\ RulesFrame

(* setCooldown: part_006 line 91, part_011 line 22; kv.ts lines 58-62 *)
SetCooldown(p) ==
    /\ proc[p].pc = "setcd"
    /\ LET s == Head(proc[p].todo).symbolId IN
       /\ cooldown' = [cooldown EXCEPT ![s] = TRUE]
       /\ keyCovers' = [keyCovers EXCEPT ![s] = recentSends[s]]
    /\ Goto(p, "inc_read")
    /\ UNCHANGED <<emergencyStop, dailyCount, notifyState, day, clock, recentSends,
                   ghostVars, runs, faults>>
    /\ RulesFrame

(* kv.ts incrementDailyNotifyCount, lines 92-94: today's key, its value *)
IncRead(p) ==
    /\ proc[p].pc = "inc_read"
    /\ Set(p, [proc[p] EXCEPT !.pc = "inc_put", !.n = dailyCount, !.nday = day])
    /\ UNCHANGED <<kvVars, timeVars, ghostVars, runs, faults>>
    /\ RulesFrame

(* kv.ts incrementDailyNotifyCount, lines 95-98: put current + 1 under the *)
(* key computed before the read                                            *)
IncPut(p) ==
    /\ proc[p].pc = "inc_put"
    /\ IF proc[p].nday = day
          THEN dailyCount' = proc[p].n + 1 /\ counted' = counted + 1
          ELSE UNCHANGED <<dailyCount, counted>>
    /\ IF proc[p].job = "monitor"
          THEN Set(p, [proc[p] EXCEPT !.pc = "loop", !.todo = Tail(@), !.resp = "none",
                                      !.logged = NoRow, !.n = 0, !.nday = 0])
          ELSE Return(p)
    /\ UNCHANGED <<emergencyStop, cooldown, notifyState, timeVars,
                   quotaHit, stopSetToday, limitAlerts, runs, faults>>
    /\ RulesFrame

(***************************************************************************)
(* sendDailySummary of the bot tree: part_006 lines 109-176.               *)
(***************************************************************************)
(* runDailySummaryJob, lines 343-351: fetchAllPrices and                   *)
(* generateHoldingsSignals come before sendDailySummary and its stop check *)
SumFetch(p) ==
    /\ proc[p].pc = "sum_fetch"
    /\ Goto(p, "sum_stop")
    /\ UNCHANGED <<kvVars, timeVars, ghostVars, runs, faults>>
    /\ RulesFrame

(* lines 116-120 *)
SumCheckStop(p) ==
    /\ proc[p].pc = "sum_stop"
    /\ IF emergencyStop THEN Return(p) ELSE Goto(p, "sum_store")
    /\ UNCHANGED <<kvVars, timeVars, ghostVars, runs, faults>>
    /\ RulesFrame

(* lines 123-150: holdings, monthly P&L, today's snapshot, the message *)
SumStore(p) ==
    /\ proc[p].pc = "sum_store"
    /\ Goto(p, "sum_send")
    /\ UNCHANGED <<kvVars, timeVars, ghostVars, runs, faults>>
    /\ RulesFrame

(* lines 152-156 *)
SumSend(p) ==
    /\ proc[p].pc = "sum_send"
    /\ \E r \in Responses : Set(p, [proc[p] EXCEPT !.pc = "sum_log", !.resp = r])
    /\ UNCHANGED <<kvVars, timeVars, ghostVars, runs, faults>>
    /\ RulesFrame

(* lines 158-172: the audit-log row, then the branch on response.success *)
SumLog(p) ==
    /\ proc[p].pc = "sum_log"
    /\ Set(p, [proc[p] EXCEPT
                   !.pc = IF proc[p].resp = "ok" THEN "inc_read" ELSE "sum_done",
                   !.logged = LogRow("null", "null", proc[p].resp)])
    /\ UNCHANGED <<kvVars, timeVars, ghostVars, runs, faults>>
    /\ RulesFrame

(* lines 170-176: the failure is logged to the console and the job returns *)
SumDone(p) ==
    /\ proc[p].pc = "sum_done"
    /\ Return(p)
    /\ UNCHANGED <<kvVars, timeVars, ghostVars, runs, faults>>
    /\ RulesFrame

(***************************************************************************)
(* The root tree: scheduler part_013, signal worker part_012, notifier     *)
(* part_011.                                                               *)
(***************************************************************************)
(* handleCronTrigger, part_013 lines 13-18 *)
RootStart(p) ==
    /\ build = "root"
    /\ proc[p].pc = "idle"
    /\ dailyCount < RootCountCap
    /\ \/ /\ Set(p, [IdleProc EXCEPT !.job = "monitor", !.pc = "r_stop"])
          /\ clock' = clock
       \/ /\ clock < SummaryTimes
          /\ Set(p, [IdleProc EXCEPT !.job = "summary", !.pc = "r_stop"])
          /\ clock' = clock + 1
    /\ UNCHANGED <<kvVars, day, recentSends, keyCovers, ghostVars, faults>>
    /\ RulesFrame

(* handleCronTrigger, part_013 lines 20-63: the stop check, then the job *)
RootCheckStop(p) ==
    /\ proc[p].pc = "r_stop"
    /\ IF emergencyStop THEN Return(p)
       ELSE Goto(p, IF proc[p].job = "monitor" THEN "r_signals" ELSE "r_sum_store")
    /\ UNCHANGED <<kvVars, timeVars, ghostVars, runs, faults>>
    /\ RulesFrame

(* runMonitoringJob part_013 lines 66-70; generateAllSignals part_012      *)
(* lines 57-59 keeps the results to notify; part_011 lines 11-12           *)
RootSignals(p) ==
    /\ proc[p].pc = "r_signals"
    /\ \E results \in RootResultLists :
          LET notifyResults == SelectSeq(results, IsNotify) IN
          IF Len(notifyResults) > 0
              THEN Set(p, [proc[p] EXCEPT !.pc = "loop",
                                          !.todo = StripAll(notifyResults)])
              ELSE Return(p)
    /\ UNCHANGED <<kvVars, timeVars, ghostVars, runs, faults>>
    /\ RulesFrame

(* sendDailySummary, part_011 lines 29-56 *)
RootSumStore(p) ==
    /\ proc[p].pc = "r_sum_store"
    /\ Goto(p, "r_sum_send")
    /\ UNCHANGED <<kvVars, timeVars, ghostVars, runs, faults>>
    /\ RulesFrame

(* sendDailySummary, part_011 line 58: the response is dropped *)
RootSumSend(p) ==
    /\ proc[p].pc = "r_sum_send"
    /\ \E r \in Responses : Set(p, [proc[p] EXCEPT !.pc = "r_sum_log", !.resp = r])
    /\ UNCHANGED <<kvVars, timeVars, ghostVars, runs, faults>>
    /\ RulesFrame

(* Variant: the row carries what the transport reported.                   *)
RootSumLogResponse(p) ==
    /\ proc[p].pc = "r_sum_log"
    /\ Set(p, [proc[p] EXCEPT !.pc = "r_sum_done",
                   !.logged = LogRow("null", "DAILY_SUMMARY", proc[p].resp)])
    /\ UNCHANGED <<kvVars, timeVars, ghostVars, runs, faults>>
    /\ RulesFrame

(* sendDailySummary, part_011 line 59: insertNotificationLog(db, null,     *)
(* 'DAILY_SUMMARY', message, true), whatever the transport reported        *)
RootSumLog(p) ==
    /\ proc[p].pc = "r_sum_log"
    /\ Set(p, [proc[p] EXCEPT !.pc = "r_sum_done",
                   !.logged = [symbolId |-> "null", action |-> "DAILY_SUMMARY",
                               success |-> TRUE, error |-> "null"]])
    /\ UNCHANGED <<kvVars, timeVars, ghostVars, runs, faults>>
    /\ RulesFrame

(* sendDailySummary returns, part_011 lines 61-64 *)
RootSumDone(p) ==
    /\ proc[p].pc = "r_sum_done"
    /\ Return(p)
    /\ UNCHANGED <<kvVars, timeVars, ghostVars, runs, faults>>
    /\ RulesFrame

(***************************************************************************)
(* The environment: time, and the administrator.                           *)
(***************************************************************************)
(* cooldownHours have passed since the oldest recent send to s *)
WindowEnd(s) ==
    /\ recentSends[s] > 0
    /\ recentSends' = [recentSends EXCEPT ![s] = @ - 1]
    /\ keyCovers' = [keyCovers EXCEPT ![s] = IF @ > 0 THEN @ - 1 ELSE 0]
    /\ UNCHANGED <<kvVars, day, clock, ghostVars, runs, faults, proc>>
    /\ RulesFrame

(* kv.ts setCooldown: expirationTtl = hours * 3600 has run out *)
KeyExpire(s) ==
    /\ cooldown[s]
    /\ keyCovers[s] = 0
    /\ cooldown' = [cooldown EXCEPT ![s] = FALSE]
    /\ UNCHANGED <<emergencyStop, dailyCount, notifyState, timeVars,
                   ghostVars, runs, faults, proc>>
    /\ RulesFrame

(* Variant: the emergency-stop key lasts for the UTC day only.             *)
NewDayStopExpires ==
    /\ day < MaxDay
    /\ day' = day + 1
    /\ clock' = 0
    /\ dailyCount' = 0
    /\ counted' = 0
    /\ quotaHit' = FALSE
    /\ stopSetToday' = FALSE
    /\ limitAlerts' = 0
    /\ emergencyStop' = FALSE
    /\ UNCHANGED <<cooldown, notifyState, recentSends, keyCovers,
                   runs, faults, proc>>
    /\ RulesFrame

(* kv.ts lines 85-86: new Date().toISOString().slice(0, 10) changes; the   *)
(* day's counter key is a new one, and system:emergency_stop, put without  *)
(* expirationTtl (kv.ts line 132), stays                                   *)
NewDay ==
    /\ day < MaxDay
    /\ day' = day + 1
    /\ clock' = 0
    /\ dailyCount' = 0
    /\ counted' = 0
    /\ quotaHit' = FALSE
    /\ stopSetToday' = FALSE
    /\ limitAlerts' = 0
    /\ UNCHANGED <<emergencyStop, cooldown, notifyState, recentSends, keyCovers,
                   runs, faults, proc>>
    /\ RulesFrame

(* resetEmergencyStop (POST /admin/reset-stop): part_006 lines 379-382 *)
ResetStop ==
    /\ emergencyStop
    /\ emergencyStop' = FALSE
    /\ UNCHANGED <<dailyCount, cooldown, notifyState, timeVars, ghostVars,
                   runs, faults, proc>>
    /\ RulesFrame

(* runInitializationJob (POST /admin/initialize, index.ts lines 66-73):    *)
(* after initializeHistoricalData the bot tree deletes the emergency-stop  *)
(* key (part_006 lines 363-373); the root tree's job (part_013 lines       *)
(* 72-74) does not touch it                                                *)
RunInitialization ==
    /\ emergencyStop' = IF build = "bot" THEN FALSE ELSE emergencyStop
    /\ UNCHANGED <<dailyCount, cooldown, notifyState, timeVars, ghostVars,
                   runs, faults, proc>>
    /\ RulesFrame

(* the steps of the bot tree's scheduler and notifier (part_006) *)
BotSteps(p) ==
    \/ MonCheckStop(p) \/ MonSignals(p)
    \/ NotifierCheckStop(p) \/ NotifierCheckLimit(p)
    \/ SetStop(p) \/ AlertSend(p) \/ AlertLog(p)
    \/ LoopQuota(p)
    \/ SumFetch(p) \/ SumCheckStop(p) \/ SumStore(p) \/ SumSend(p) \/ SumLog(p)
    \/ SumDone(p)

(* the steps both notifiers share, and incrementDailyNotifyCount *)
LoopSteps(p) ==
    \/ LoopCooldown(p) \/ Send(p) \/ LogInsert(p) \/ AfterLog(p)
    \/ SetCooldown(p) \/ IncRead(p) \/ IncPut(p)

(* the steps of the root tree's scheduler and notifier (part_013, part_011) *)
RootSteps(p) ==
    \/ RootCheckStop(p) \/ RootSignals(p)
    \/ RootSumStore(p) \/ RootSumSend(p) \/ RootSumLog(p) \/ RootSumDone(p)

Steps(p) == BotSteps(p) \/ LoopSteps(p) \/ RootSteps(p)

Environment ==
    \/ \E s \in Symbols : WindowEnd(s) \/ KeyExpire(s)
    \/ NewDay
    \/ ResetStop
    \/ RunInitialization

ClockIdle ==
    /\ now = [day |-> 1, hour |-> 0, minute |-> 0]
    /\ ran = "none"

NoEffects == [called |-> FALSE, historyRow |-> FALSE, snapshotPut |-> FALSE]

NoOut == [fn |-> "none", value |-> [kind |-> "none"]]

IndicatorsIdle ==
    /\ closes = <<>>
    /\ period = 1
    /\ out = NoOut

NoPrior == [previous |-> "NULL", action |-> "NONE", confidence |-> 0, notify |-> "none"]

TickIdle ==
    /\ bars = 0
    /\ snapshot = NoPrevious
    /\ effects = NoEffects
    /\ failed = NoSignal
    /\ fresh = FALSE
    /\ prior = NoPrior
    /\ IndicatorsIdle

RulesIdle ==
    /\ rin = CHOOSE x \in RuleInputs : TRUE
    /\ decision = NoDecision
    /\ previous = NoPrevious
    /\ sig = NoSignal
    /\ notify = "none"
    /\ ClockIdle
    /\ TickIdle

(***************************************************************************)
(* Spec: scheduled invocations one after the other (no overlap).           *)
(***************************************************************************)
Init ==
    /\ build \in Builds
    /\ RulesIdle
    /\ GateQuiet

SeqBotStart  == AllIdle /\ BotStart(1) /\ runs' = runs
SeqRootStart == AllIdle /\ RootStart(1) /\ runs' = runs

Next == SeqBotStart \/ SeqRootStart \/ Steps(1) \/ Environment

Spec == Init /\ [][Next]_vars

(***************************************************************************)
(* SpecRace: up to MaxRuns invocations of the bot tree on two slots,       *)
(* interleaved at every await.  It starts from quiet states Spec reaches:  *)
(* nothing in flight, no cooldown key, the day's counter at 0 or at the    *)
(* limit.                                                                  *)
(***************************************************************************)
RaceStartCounts == {0, MAX_NOTIFICATIONS_PER_DAY}

RaceInit ==
    /\ build = "bot"
    /\ RulesIdle
    /\ emergencyStop = FALSE
    /\ dailyCount \in RaceStartCounts
    /\ cooldown = [s \in Symbols |-> FALSE]
    /\ notifyState = [s \in Symbols |-> "null"]
    /\ day = 0
    /\ clock = 0
    /\ recentSends = [s \in Symbols |-> 0]
    /\ keyCovers = [s \in Symbols |-> 0]
    /\ counted = dailyCount
    /\ quotaHit = FALSE
    /\ stopSetToday = FALSE
    /\ limitAlerts = 0
    /\ runs = 0
    /\ faults = 0
    /\ proc = [p \in Procs |-> IdleProc]

(* The second slot is taken only while the first is busy: an invocation   *)
(* that starts with nothing else in flight runs on slot 1.                *)
SlotFree(p) == p = 1 \/ proc[1].pc # "idle"

RaceBotStart(p) ==
    runs < MaxRuns /\ SlotFree(p) /\ BotStart(p) /\ runs' = runs + 1

RaceNext ==
    \/ \E p \in Procs : RaceBotStart(p) \/ BotSteps(p) \/ LoopSteps(p)
    \/ \E s \in Symbols : WindowEnd(s) \/ KeyExpire(s)

SpecRace == RaceInit /\ [][RaceNext]_vars

(***************************************************************************)
(* RulesSpec: the pure functions of the rules.  Either aggregateSignals is *)
(* applied to inputs drawn from the sets above and its result is handed to *)
(* shouldNotify, as generateSignalForSymbol (workers/signal.ts lines       *)
(* 84-101, part_012 lines 36-46) does, or shouldNotify is applied to a     *)
(* SignalResult drawn from SignalChoices.                                  *)
(***************************************************************************)
DirectInputs ==
    { in \in RuleInputs : /\ in.l1 = 600 /\ in.l2 = 600 /\ in.sharpe = 0
                          /\ in.l4.state = "RANGE" /\ in.l4.signal = "CONTINUE"
                          /\ ~in.isHolding
                          /\ in.targetPct = 10 /\ in.events = 0 }

RulesInit ==
    /\ build \in Builds
    /\ \/ rin \in RuleInputs /\ sig = NoSignal
       \/ rin \in DirectInputs /\ sig \in SignalChoices
    /\ decision = NoDecision
    /\ previous = NoPrevious
    /\ notify = "none"
    /\ ClockIdle
    /\ TickIdle
    /\ GateQuiet

Aggregate ==
    /\ sig = NoSignal
    /\ decision = NoDecision
    /\ decision' = gateAggregate(build, rin)
    /\ sig' = SignalOf(decision')
    /\ UNCHANGED <<build, rin, previous, notify, gateVars, clockVars, tickVars, indVars>>

CheckNotify ==
    /\ sig # NoSignal
    /\ notify = "none"
    /\ \E prev \in PreviousChoices :
          /\ previous' = prev
          /\ notify' = IF gateShouldNotify(build, sig, prev, rin.thresholds)
                          THEN "yes" ELSE "no"
    /\ UNCHANGED <<build, rin, decision, sig, gateVars, clockVars, tickVars, indVars>>

RulesNext == Aggregate \/ CheckNotify

RulesSpec == RulesInit /\ [][RulesNext]_vars

(***************************************************************************)
(* SpecStoreFault: Spec, and a store call that throws.  D1's               *)
(* insertNotificationLog (storage/d1.ts lines 220-233) awaits              *)
(* db.prepare(...).run(), which rejects when the database is unavailable.  *)
(* In the bot tree the loop's catch (part_006 lines 97-99) logs and goes   *)
(* on with the next result; the root tree (part_011, part_013) has no      *)
(* catch and the invocation ends.                                          *)
(***************************************************************************)
LogInsertThrows(p) ==
    /\ proc[p].pc = "log"
    /\ faults < MaxFaults
    /\ faults' = faults + 1
    /\ IF build = "bot" THEN NextResult(p) ELSE Return(p)
    /\ UNCHANGED <<kvVars, timeVars, ghostVars, runs>>
    /\ RulesFrame

(***************************************************************************)
(* A kv read that rejects (kv.get when the namespace is unavailable) at a  *)
(* call no try block of the callee encloses.  Bot tree: isEmergencyStop in *)
(* runMonitoringJob (part_006 line 313), in sendSignalNotifications (32)   *)
(* and in sendDailySummary (116), getDailyNotifyCount (38, 65) and         *)
(* isInCooldown (59), the last two inside the loop but before its try      *)
(* (70); the exception reaches handleCronTrigger's catch (283).  Root      *)
(* tree: isEmergencyStop in handleCronTrigger (part_013 line 20) and       *)
(* isInCooldown in the notifier's loop (part_011 line 15); nothing         *)
(* catches it.  The results not yet processed stay in todo, unprocessed.   *)
(***************************************************************************)
KvReadPoints ==
    IF build = "bot"
        THEN {"mon_stop", "n_stop", "n_count", "loop", "quota", "sum_stop"}
        ELSE {"r_stop", "loop"}

KvReadThrows(p) ==
    /\ proc[p].pc \in KvReadPoints
    /\ proc[p].pc = "loop" => proc[p].todo # <<>>
    /\ faults < MaxFaults
    /\ faults' = faults + 1
    /\ Goto(p, IF build = "bot" THEN "job_failed" ELSE "rejected")
    /\ UNCHANGED <<kvVars, timeVars, ghostVars, runs>>
    /\ RulesFrame

(***************************************************************************)
(* A D1 read that rejects (getAllSymbols when the database is              *)
(* unavailable).  Bot tree: in fetchAllPrices, the first call of           *)
(* runDailySummaryJob (part_006 line 344; workers/fetcher.ts lines 21 and  *)
(* 69-71 log and rethrow), and in generateAllSignals (workers/signal.ts    *)
(* lines 27 and 49-51, log and rethrow); handleCronTrigger's catch gets    *)
(* it.  Root tree: fetchAllPrices in runMonitoringJob (part_013 line 67);  *)
(* nothing catches it.                                                     *)
(***************************************************************************)
D1ReadPoints ==
    IF build = "bot" THEN {"sum_fetch", "mon_signals"} ELSE {"r_signals"}

D1ReadThrows(p) ==
    /\ proc[p].pc \in D1ReadPoints
    /\ faults < MaxFaults
    /\ faults' = faults + 1
    /\ Goto(p, IF build = "bot" THEN "job_failed" ELSE "rejected")
    /\ UNCHANGED <<kvVars, timeVars, ghostVars, runs>>
    /\ RulesFrame

(* Variant: the alert of a failed job is sent only while the gate is open. *)
JobFailedGated(p) ==
    /\ proc[p].pc = "job_failed"
    /\ IF emergencyStop \/ dailyCount >= MAX_NOTIFICATIONS_PER_DAY
          THEN Return(p)
          ELSE \E r \in Responses :
                  Set(p, [proc[p] EXCEPT !.pc = "fail_log", !.resp = r])
    /\ UNCHANGED <<kvVars, timeVars, ghostVars, runs, faults>>
    /\ RulesFrame

(* handleCronTrigger's catch, part_006 lines 283-293: the error is logged  *)
(* and sendAlert is called; sendAlert (lines 187-194) formats the message  *)
(* and hands it to the transport.                                          *)
JobFailed(p) ==
    /\ proc[p].pc = "job_failed"
    /\ \E r \in Responses : Set(p, [proc[p] EXCEPT !.pc = "fail_log", !.resp = r])
    /\ UNCHANGED <<kvVars, timeVars, ghostVars, runs, faults>>
    /\ RulesFrame

(* sendAlert, lines 196-203: the audit-log row of the alert *)
FailAlertLog(p) ==
    /\ proc[p].pc = "fail_log"
    /\ Set(p, [proc[p] EXCEPT !.pc = "fail_done",
                   !.logged = LogRow("null", "ALERT", proc[p].resp)])
    /\ UNCHANGED <<kvVars, timeVars, ghostVars, runs, faults>>
    /\ RulesFrame

(* sendAlert returns (205-209) and handleCronTrigger with it (293-294) *)
FailAlertDone(p) ==
    /\ proc[p].pc = "fail_done"
    /\ Return(p)
    /\ UNCHANGED <<kvVars, timeVars, ghostVars, runs, faults>>
    /\ RulesFrame

(* scheduled() (part_008 lines 51-57) awaits handleCronTrigger: its        *)
(* rejection is the invocation's outcome.                                  *)
ScheduledRejects(p) ==
    /\ proc[p].pc = "rejected"
    /\ Return(p)
    /\ UNCHANGED <<kvVars, timeVars, ghostVars, runs, faults>>
    /\ RulesFrame

FaultNext ==
    \/ Next
    \/ LogInsertThrows(1)
    \/ KvReadThrows(1)
    \/ D1ReadThrows(1)
    \/ JobFailed(1)
    \/ FailAlertLog(1)
    \/ FailAlertDone(1)
    \/ ScheduledRejects(1)

SpecStoreFault == Init /\ [][FaultNext]_vars

(***************************************************************************)
(* The signal worker on one instrument, tick after tick.                   *)
(***************************************************************************)
TickSymbol == "s1"

(* the lengths getDailyPrices(db, id, 200) may return, around the two      *)
(* minimums the trees use                                                  *)
BarChoices == {49, 50, 59, 60}

(* what the series may look like at a tick: default thresholds, no event,  *)
(* not held; ten inputs of RuleInputs that yield BUY (at 0.48, at 0.55 and *)
(* at 0.65), SELL (at 0.55 and at 0.6), WATCH and HOLD                     *)
TickInputs ==
    { in \in [l1 : {400, 600}, l2 : {400, 600, 700}, sharpe : {-600, 0, 510},
              l4 : {x \in L4Outputs : /\ x.state \in {"RANGE", "UPTREND"}
                                      /\ x.signal \in {"CONTINUE", "REVERSAL_UP"}},
              thresholds : {DEFAULT_THRESHOLDS}, isHolding : {FALSE},
              targetPct : {10}, events : {0}] :
        /\ (in.l2 >= 600) = (in.sharpe = -600)
        /\ in.l4.state = "UPTREND" => (in.l1 = 600 /\ in.sharpe = 510)
        /\ in.l4.signal = "REVERSAL_UP" =>
               (in.l1 = 400 /\ in.l2 = 400 /\ in.sharpe = 510) }

YesNo(b) == IF b THEN "yes" ELSE "no"

(* nothing is computed for the instrument: return null / continue *)
Skipped(snap) ==
    [decision |-> NoDecision, previous |-> NoPrevious, notify |-> "none",
     effects  |-> [called |-> TRUE, historyRow |-> FALSE, snapshotPut |-> FALSE],
     snapshot |-> snap, results |-> <<>>]

(* Variant: the snapshot is overwritten only by a Decision that is         *)
(* notified.                                                               *)
generateSignalForSymbolKeepsUnnotified(n, in, snap) ==
    IF n < 60 THEN Skipped(snap)
    ELSE LET signal == aggregateSignals(in)
             ntf    == shouldNotify(SignalOf(signal), snap, in.thresholds)
         IN  [decision |-> signal, previous |-> snap, notify |-> YesNo(ntf),
              effects  |-> [called      |-> TRUE,
                            historyRow  |-> signal.action # "HOLD",
                            snapshotPut |-> ntf],
              snapshot |-> IF ntf THEN SignalOf(signal) ELSE snap,
              results  |-> <<[symbolId |-> TickSymbol, action |-> signal.action,
                              shouldNotify |-> ntf]>>]

(* bot workers/signal.ts generateSignalForSymbol, lines 59-118: n bars,    *)
(* the rules' inputs in, the stored snapshot snap.  The snapshot is the    *)
(* whole SignalResult as JSON; the model keeps its action and confidence.  *)
generateSignalForSymbol(n, in, snap) ==
    IF n < 60 THEN Skipped(snap)
    ELSE LET signal == aggregateSignals(in)
             ntf    == shouldNotify(SignalOf(signal), snap, in.thresholds)
         IN  [decision |-> signal, previous |-> snap, notify |-> YesNo(ntf),
              effects  |-> [called      |-> TRUE,
                            historyRow  |-> signal.action # "HOLD",
                            snapshotPut |-> TRUE],
              snapshot |-> SignalOf(signal),
              results  |-> <<[symbolId |-> TickSymbol, action |-> signal.action,
                              shouldNotify |-> ntf]>>]

(* root signal worker, part_012 lines 24-60: the body of the loop of       *)
(* generateAllSignals; the snapshot is put only when it differs, and only  *)
(* a result to notify is pushed                                            *)
generateSignalRoot(n, in, snap) ==
    IF n < 50 THEN Skipped(snap)
    ELSE LET signal == aggregateSignalsRoot(in)
             ntf    == shouldNotifyRoot(SignalOf(signal), snap, in.thresholds)
         IN  [decision |-> signal, previous |-> snap, notify |-> YesNo(ntf),
              effects  |-> [called      |-> TRUE,
                            historyRow  |-> signal.action # "HOLD",
                            snapshotPut |-> snap # SignalOf(signal)],
              snapshot |-> SignalOf(signal),
              results  |-> IF ntf
                              THEN <<[symbolId |-> TickSymbol,
                                      action |-> signal.action,
                                      shouldNotify |-> ntf]>>
                              ELSE <<>>]

(* a monitoring invocation starts (both trees) *)
TickStart ==
    /\ AllIdle
    /\ runs < MaxRuns
    /\ runs' = runs + 1
    /\ Set(1, [IdleProc EXCEPT !.job = "monitor",
                               !.pc = IF build = "bot" THEN "mon_stop" ELSE "r_stop"])
    /\ UNCHANGED <<kvVars, timeVars, ghostVars, faults>>
    /\ RulesFrame

(* runMonitoringJob: generateAllSignals over the instrument, then the      *)
(* results handed on (part_006 lines 322-331; part_013 lines 68-69 with    *)
(* part_011 lines 11-12)                                                   *)
TickSignals(p) ==
    /\ proc[p].pc = IF build = "bot" THEN "mon_signals" ELSE "r_signals"
    /\ \E n \in BarChoices, in \in TickInputs :
          LET g    == IF build = "bot" THEN generateSignalForSymbol(n, in, snapshot)
                                       ELSE generateSignalRoot(n, in, snapshot)
              keep == IF build = "bot" THEN SelectSeq(g.results, IsActionable)
                                       ELSE SelectSeq(g.results, IsNotify)
          IN  /\ bars' = n
              /\ rin' = in
              /\ decision' = g.decision
              /\ previous' = g.previous
              /\ sig' = SignalOf(g.decision)
              /\ notify' = g.notify
              /\ effects' = g.effects
              /\ snapshot' = g.snapshot
              /\ prior' = [previous |-> previous.action, action |-> sig.action,
                           confidence |-> sig.confidence, notify |-> notify]
              /\ fresh' = IF g.decision = NoDecision THEN fresh
                          ELSE fresh /\ SignalOf(g.decision) = failed
              /\ IF Len(keep) > 0
                    THEN Set(p, [proc[p] EXCEPT
                                   !.pc = IF build = "bot" THEN "n_stop" ELSE "loop",
                                   !.todo = StripAll(keep)])
                    ELSE Return(p)
    /\ UNCHANGED <<build, kvVars, timeVars, ghostVars, runs, faults, clockVars, failed,
                   indVars>>

(* kv.ts setPreviousSignal line 116: expirationTtl of 7 days has run out *)
SnapshotExpire ==
    /\ AllIdle
    /\ snapshot # NoPrevious
    /\ snapshot' = NoPrevious
    /\ UNCHANGED <<build, rulesVars, gateVars, clockVars, bars, effects, failed, fresh,
                   prior, indVars>>

TickInit ==
    /\ build \in Builds
    /\ RulesIdle
    /\ GateQuiet

TickNext ==
    \/ TickStart
    \/ MonCheckStop(1) \/ RootCheckStop(1)
    \/ TickSignals(1)
    \/ NotifierCheckStop(1) \/ NotifierCheckLimit(1) \/ LoopQuota(1)
    \/ LoopSteps(1)
    \/ \E s \in Symbols : WindowEnd(s) \/ KeyExpire(s)
    \/ SnapshotExpire

(***************************************************************************)
(* SpecTick: up to MaxRuns monitoring ticks one after the other, each      *)
(* running the signal worker on the instrument and handing its result to   *)
(* the notifier.                                                           *)
(***************************************************************************)
SpecTick == TickInit /\ [][TickNext]_vars

(***************************************************************************)
(* The wall clock.  An instant is a UTC weekday (getUTCDay: 0 is Sunday, 6 *)
(* Saturday), hour and minute; the cron trigger fires every five minutes.  *)
(***************************************************************************)
Minutes  == {m \in 0..59 : m % 5 = 0}
Instants == [day : 0..6, hour : 0..23, minute : Minutes]

(* bot helpers.ts getJSTDate, lines 23-27: the instant nine hours later,   *)
(* whose getUTCHours / getUTCDay are the JST hour and weekday               *)
getJSTDate(t) ==
    [day    |-> (t.day + ((t.hour + 9) \div 24)) % 7,
     hour   |-> (t.hour + 9) % 24,
     minute |-> t.minute]

(* bot helpers.ts lines 40-42: the instant five hours earlier (EST)        *)
getESTDate(t) ==
    [day    |-> (t.day + 6 + ((t.hour + 19) \div 24)) % 7,
     hour   |-> (t.hour + 19) % 24,
     minute |-> t.minute]

(* bot helpers.ts isJapanMarketOpen, lines 30-36 *)
isJapanMarketOpen(t) ==
    LET jst == getJSTDate(t) IN
    jst.day >= 1 /\ jst.day <= 5 /\ jst.hour >= 0 /\ jst.hour < 6

(* bot helpers.ts isUSMarketOpen, lines 39-47 *)
isUSMarketOpen(t) ==
    LET est == getESTDate(t) IN
    /\ est.day >= 1 /\ est.day <= 5
    /\ \/ est.hour >= 14 /\ est.hour < 21
       \/ est.hour = 14 /\ est.minute >= 30

(* root src/utils/helpers.ts isJapanMarketOpen, lines 18-25 *)
isJapanMarketOpenRoot(t) ==
    LET jstHour == (t.hour + 9) % 24 IN jstHour >= 9 /\ jstHour < 15

(* root src/utils/helpers.ts isUSMarketOpen, lines 27-31 *)
isUSMarketOpenRoot(t) ==
    LET estHour == (t.hour - 5 + 24) % 24 IN estHour >= 9 /\ estHour < 16

gateJapanOpen(b, t) ==
    IF b = "bot" THEN isJapanMarketOpen(t) ELSE isJapanMarketOpenRoot(t)

gateUSOpen(b, t) ==
    IF b = "bot" THEN isUSMarketOpen(t) ELSE isUSMarketOpenRoot(t)

(***************************************************************************)
(* handleCronTrigger of the bot tree, part_006 lines 264-282, with         *)
(* runMonitoringJob's market and stop checks (304-316): the job that runs. *)
(* "monitor" is a monitoring tick that goes on to fetch, generate and      *)
(* notify; "nothing" is an invocation that returns without doing so.       *)
(***************************************************************************)
handleCronTrigger(t, stop) ==
    IF t.hour = 7 /\ t.minute = 0 THEN "jp_summary"
    ELSE IF t.hour = 22 /\ t.minute = 0 THEN "us_summary"
    ELSE IF ~isJapanMarketOpen(t) /\ ~isUSMarketOpen(t) THEN "nothing"
    ELSE IF stop THEN "nothing"
    ELSE "monitor"

(* handleCronTrigger of the root tree, part_013 lines 20-63 *)
handleCronTriggerRoot(t, stop) ==
    IF stop THEN "nothing"
    ELSE IF t.day = 6 /\ t.hour = 10 /\ t.minute = 0 THEN "weekly_summary"
    ELSE IF t.hour = 13 /\ t.minute = 0 THEN "fund_refresh"
    ELSE IF t.hour = 7 /\ t.minute = 0 THEN "jp_summary"
    ELSE IF t.hour = 22 /\ t.minute = 0 THEN "us_summary"
    ELSE IF isJapanMarketOpenRoot(t) \/ isUSMarketOpenRoot(t) THEN "monitor"
    ELSE "nothing"

gateCronTrigger(b, t, stop) ==
    IF b = "bot" THEN handleCronTrigger(t, stop) ELSE handleCronTriggerRoot(t, stop)

(* five minutes later *)
NextInstant(t) ==
    IF t.minute < 55 THEN [t EXCEPT !.minute = @ + 5]
    ELSE IF t.hour < 23 THEN [t EXCEPT !.minute = 0, !.hour = @ + 1]
    ELSE [day |-> (t.day + 1) % 7, hour |-> 0, minute |-> 0]

(***************************************************************************)
(* SpecSchedule: the scheduler's routing over every instant of a week.     *)
(* The cron trigger invokes handleCronTrigger (Route), and five minutes    *)
(* later the next invocation is due (CronTick); the administrator may have *)
(* the emergency stop set or clear.                                        *)
(***************************************************************************)
ScheduleInit ==
    /\ build \in Builds
    /\ rin = CHOOSE x \in RuleInputs : TRUE
    /\ decision = NoDecision
    /\ previous = NoPrevious
    /\ sig = NoSignal
    /\ notify = "none"
    /\ GateQuiet
    /\ TickIdle
    /\ now \in Instants
    /\ ran = "none"

Route ==
    /\ ran = "none"
    /\ ran' = gateCronTrigger(build, now, emergencyStop)
    /\ UNCHANGED <<build, rulesVars, gateVars, now, tickVars, indVars>>

CronTick ==
    /\ ran # "none"
    /\ now' = NextInstant(now)
    /\ ran' = "none"
    /\ UNCHANGED <<build, rulesVars, gateVars, tickVars, indVars>>

(* setEmergencyStop(true) by an earlier tick, or the administrator's       *)
(* reset, before the invocation                                            *)
StopFlips ==
    /\ ran = "none"
    /\ emergencyStop' = ~emergencyStop
    /\ UNCHANGED <<build, rulesVars, dailyCount, cooldown, notifyState, timeVars,
                   ghostVars, runs, faults, proc, clockVars, tickVars, indVars>>

ScheduleNext == Route \/ CronTick \/ StopFlips

SpecSchedule == ScheduleInit /\ [][ScheduleNext]_vars

(***************************************************************************)
(* The indicators.  A value a function returns is a JavaScript number,     *)
(* kept as an exact fraction num / den (den > 0), or NaN, or undefined.    *)
(***************************************************************************)
Number(n, d) == [kind |-> "number", num |-> n, den |-> d]
NaN          == [kind |-> "NaN"]
Undefined    == [kind |-> "undefined"]

RECURSIVE SumSeq(_)
SumSeq(s) == IF s = <<>> THEN 0 ELSE Head(s) + SumSeq(Tail(s))

(* Array.prototype.slice(-n) for 0 < n *)
sliceLast(s, n) == IF Len(s) <= n THEN s ELSE SubSeq(s, Len(s) - n + 1, Len(s))

(* bot utils/helpers.ts average, lines 67-70 *)
average(arr) == IF Len(arr) = 0 THEN Number(0, 1) ELSE Number(SumSeq(arr), Len(arr))

(* Variant: a short series is averaged as a whole.                         *)
smaMeanWhenShort(cl, n) ==
    IF Len(cl) < n THEN average(cl) ELSE average(sliceLast(cl, n))

(* bot models/indicators.ts sma, lines 12-16: closes[closes.length - 1]    *)
(* || 0 is the last close, or 0 when there is none or when it is 0         *)
sma(cl, n) ==
    IF Len(cl) < n
        THEN Number(IF Len(cl) = 0 THEN 0 ELSE cl[Len(cl)], 1)
        ELSE average(sliceLast(cl, n))

(* root models/indicators.ts calculateSMA, lines 20-32: one entry per bar  *)
calculateSMA(data, n) ==
    [j \in 1..Len(data) |->
        IF j - 1 < n - 1 THEN NaN
        ELSE Number(SumSeq(SubSeq(data, j - n + 1, j)), n)]

(* the last entry of an array: arr[arr.length - 1] *)
lastOf(arr) == IF Len(arr) = 0 THEN Undefined ELSE arr[Len(arr)]

gateSma(b, cl, n) == IF b = "bot" THEN sma(cl, n) ELSE lastOf(calculateSMA(cl, n))

RSI_PERIOD == 14

(* Variant: no movement at all is neutral.                                 *)
rsiFlatNeutral(cl, n) ==
    IF Len(cl) < n + 1 THEN Number(50, 1)
    ELSE LET changes == [i \in 1..(Len(cl) - 1) |-> cl[i + 1] - cl[i]]
             recent  == sliceLast(changes, n)
             gain    == SumSeq([i \in 1..Len(recent) |->
                                   IF recent[i] > 0 THEN recent[i] ELSE 0])
             loss    == SumSeq([i \in 1..Len(recent) |->
                                   IF recent[i] > 0 THEN 0 ELSE -recent[i]])
         IN  IF gain = 0 /\ loss = 0 THEN Number(50, 1)
             ELSE IF loss = 0 THEN Number(100, 1)
             ELSE Number(100 * gain, gain + loss)

(* bot models/indicators.ts rsi, lines 40-65.  avgGain and avgLoss are the *)
(* sums divided by the period, so avgLoss === 0 exactly when the sum of    *)
(* the losses is 0, and 100 - 100 / (1 + avgGain / avgLoss) is             *)
(* 100 * gain / (gain + loss).                                             *)
rsi(cl, n) ==
    IF Len(cl) < n + 1 THEN Number(50, 1)
    ELSE LET changes == [i \in 1..(Len(cl) - 1) |-> cl[i + 1] - cl[i]]
             recent  == sliceLast(changes, n)
             gain    == SumSeq([i \in 1..Len(recent) |->
                                   IF recent[i] > 0 THEN recent[i] ELSE 0])
             loss    == SumSeq([i \in 1..Len(recent) |->
                                   IF recent[i] > 0 THEN 0 ELSE -recent[i]])
         IN  IF loss = 0 THEN Number(100, 1)
             ELSE Number(100 * gain, gain + loss)

(* root models/indicators.ts calculateRSI, lines 34-37 *)
calculateRSI(data, n) == [j \in 1..Len(data) |-> Number(50, 1)]

gateRsi(b, cl, n) == IF b = "bot" THEN rsi(cl, n) ELSE lastOf(calculateRSI(cl, n))

(***************************************************************************)
(* The close series the functions are applied to: the empty series, and    *)
(* every series of up to MaxBars bars that starts at 100 and moves in up   *)
(* to three runs, each rising by one, flat or falling by one per bar.      *)
(***************************************************************************)
MaxBars == 16

Moves == {-1, 0, 1}

Ramp(from, d, k) == [i \in 1..k |-> from + d * i]

ThreeRuns(d1, k1, d2, k2, d3, k3) ==
    LET e1 == 100 + d1 * k1
        e2 == e1 + d2 * k2
    IN  <<100>> \o Ramp(100, d1, k1) \o Ramp(e1, d2, k2) \o Ramp(e2, d3, k3)

CloseSeries ==
    {<<>>} \cup
    { ThreeRuns(d1, k1, d2, k2, d3, k3) :
        <<d1, d2, d3>> \in Moves \X Moves \X Moves,
        <<k1, k2, k3>> \in { k \in (0..(MaxBars - 1)) \X (0..(MaxBars - 1))
                                      \X (0..(MaxBars - 1)) :
                                k[1] + k[2] + k[3] < MaxBars } }

(* the periods sma is called with: models/indicators.ts lines 199, 236-238 *)
(* call it with 20, 60 and 120; 3 and 14 are below MaxBars                 *)
Periods == {3, 14, 20}

IndicatorsInit ==
    /\ build \in Builds
    /\ rin = CHOOSE x \in RuleInputs : TRUE
    /\ decision = NoDecision
    /\ previous = NoPrevious
    /\ sig = NoSignal
    /\ notify = "none"
    /\ ClockIdle
    /\ bars = 0
    /\ snapshot = NoPrevious
    /\ effects = NoEffects
    /\ failed = NoSignal
    /\ fresh = FALSE
    /\ prior = NoPrior
    /\ GateQuiet
    /\ closes \in CloseSeries
    /\ period \in Periods
    /\ out = NoOut

IndicatorsFrame == UNCHANGED <<build, rulesVars, gateVars, clockVars, tickVars>>

ApplySma ==
    /\ out = NoOut
    /\ out' = [fn |-> "sma", value |-> gateSma(build, closes, period)]
    /\ UNCHANGED <<closes, period>>
    /\ IndicatorsFrame

ApplyRsi ==
    /\ out = NoOut
    /\ out' = [fn |-> "rsi", value |-> gateRsi(build, closes, RSI_PERIOD)]
    /\ UNCHANGED <<closes, period>>
    /\ IndicatorsFrame

IndicatorsNext == ApplySma \/ ApplyRsi

(***************************************************************************)
(* SpecIndicators: sma and rsi applied to each close series.               *)
(***************************************************************************)
SpecIndicators == IndicatorsInit /\ [][IndicatorsNext]_vars

(***************************************************************************)
(*                              The claims                                 *)
(***************************************************************************)

(* C1: without overlapping invocations, the notifications sent and counted *)
(* against one UTC day (signal notifications plus daily summaries) never   *)
(* exceed MAX_NOTIFICATIONS_PER_DAY.                                       *)
C1_DailyCap == counted <= MAX_NOTIFICATIONS_PER_DAY

(* C1, where it goes wrong: a daily summary is counted on a day whose      *)
(* counter had already reached the limit.                                  *)
C1_SummaryOverCap ==
    /\ build = "bot"
    /\ counted > MAX_NOTIFICATIONS_PER_DAY
    /\ dailyCount = counted

(* C2: once a qualifying signal has met the used-up quota on a UTC day,    *)
(* the invocation that met it has set the emergency stop by the time it    *)
(* returns.                                                                *)
C2_StopAtLimit ==
    (proc[1].pc = "idle" /\ quotaHit) => stopSetToday

(* C2, where it goes wrong: the quota was met inside the loop, the         *)
(* invocation has returned, and neither the stop flag nor an alert         *)
(* followed.                                                               *)
C2_SilentBreak ==
    /\ proc[1].pc = "idle"
    /\ quotaHit
    /\ ~stopSetToday
    /\ ~emergencyStop
    /\ limitAlerts = 0

(* C3: in non-overlapping ticks, after a successful signal notification    *)
(* for an instrument no further one is sent for it until cooldownHours     *)
(* have elapsed: at most one successful send per instrument is less than   *)
(* cooldownHours old.                                                      *)
C3_CooldownHolds == \A s \in Symbols : recentSends[s] <= 1

(* C3, where it goes wrong: a second send within the window, after an      *)
(* audit-log insert threw.                                                 *)
C3_ResentInWindow ==
    /\ faults > 0
    /\ \E s \in Symbols : recentSends[s] = 2

(* C4: while the emergency-stop flag is set, no invocation hands a signal  *)
(* notification or a summary to the transport.                             *)
C4_StopSuppresses ==
    [][\A p \in Procs :
          (proc[p].pc \in {"send", "sum_send", "r_sum_send"}
              /\ proc'[p].pc # proc[p].pc) => ~emergencyStop]_vars

(* C4, where it goes wrong: the flag is set while another invocation,      *)
(* which has passed its own stop check, is about to send.                  *)
C4_SendPending ==
    /\ emergencyStop
    /\ \E p \in Procs : proc[p].pc \in {"send", "sum_send"}

(* C5: for a BUY whose previous Decision is SELL (or a SELL whose previous *)
(* is BUY) shouldNotify is true exactly when confidence > 0.5 +            *)
(* hysteresisBuffer; for any other BUY or SELL exactly when confidence >=  *)
(* 0.5.                                                                    *)
Flips(current, prev) ==
    \/ current.action = "BUY"  /\ prev.action = "SELL"
    \/ current.action = "SELL" /\ prev.action = "BUY"

C6_FailureLeavesGate ==
    [][\A p \in Procs :
          /\ (proc[p].pc = "send" /\ proc'[p].pc = "log" /\ proc'[p].resp = "fail")
                => (cooldown' = cooldown /\ dailyCount' = dailyCount)
          /\ (proc[p].pc = "log" /\ proc[p].resp = "fail" /\ proc'[p] # proc[p])
                => /\ proc'[p].logged =
                         [symbolId |-> Head(proc[p].todo).symbolId,
                          action   |-> Head(proc[p].todo).action,
                          success  |-> FALSE,
                          error    |-> "LINE API error"]
                   /\ cooldown' = cooldown /\ dailyCount' = dailyCount
          /\ (proc[p].pc = "after_log" /\ proc[p].resp = "fail" /\ proc'[p] # proc[p])
                => /\ proc'[p].pc = "loop"
                   /\ proc'[p].todo = Tail(proc[p].todo)
                   /\ cooldown' = cooldown /\ dailyCount' = dailyCount]_vars

(* C6, its case: a failed attempt has been logged and the instrument is    *)
(* still out of cooldown.                                                  *)
C6_FailureLogged ==
    \E p \in Procs :
        /\ proc[p].pc = "after_log"
        /\ proc[p].resp = "fail"
        /\ proc[p].logged.success = FALSE
        /\ ~cooldown[Head(proc[p].todo).symbolId]

(* C7: when the transport succeeds for a signal notification, by the time  *)
(* the gate proceeds to the next instrument the success row is appended,   *)
(* the cooldown key is set (unless its window has already ended), the      *)
(* day's counter is one more than it was read, and the instrument's        *)
(* last-notified state (notify:state:<id>) is written.                     *)
C7_AllFourEffects ==
    [][\A p \in Procs :
          (proc[p].pc = "inc_put" /\ proc[p].job = "monitor" /\ proc'[p].pc = "loop")
              => LET s == Head(proc[p].todo).symbolId IN
                 /\ proc[p].logged.success
                 /\ cooldown'[s] \/ recentSends'[s] = 0
                 /\ proc[p].nday = day => dailyCount' = proc[p].n + 1
                 /\ notifyState'[s] # "null"]_vars

(* C7, where it goes wrong: cooldown set and counter incremented after a   *)
(* successful send, and no last-notified state for the instrument.         *)
C7_StateNeverWritten ==
    \E s \in Symbols :
        /\ cooldown[s]
        /\ recentSends[s] = 1
        /\ counted >= 1
        /\ proc[1].pc = "loop"
        /\ notifyState[s] = "null"

(* C8: when invocations overlap two at a time and process the same         *)
(* instrument, at most two signal notifications for it are sent within one *)
(* cooldown window, under every interleaving of their kv reads, sends and  *)
(* kv writes.                                                              *)
C8_OneExtraPerRace == \A s \in Symbols : recentSends[s] <= 2

(* C8, its case: both overlapping invocations have sent for the same       *)
(* instrument within one window, and a third invocation has started.       *)
C8_RaceHappened ==
    /\ runs = MaxRuns
    /\ \E s \in Symbols : recentSends[s] = 2 /\ cooldown[s]

(* C9: every Decision aggregateSignals returns has action = BUY only with  *)
(* buyScore >= 2 and sellScore < 2, and action = SELL only with            *)
(* sellScore >= 2 and buyScore < 2.                                        *)
C9_ActionNeedsScore ==
    /\ decision.action = "BUY"  => (decision.buyScore >= 2 /\ decision.sellScore < 2)
    /\ decision.action = "SELL" => (decision.sellScore >= 2 /\ decision.buyScore < 2)

(* C9, its case: a BUY returned with two BUY conditions and one SELL       *)
(* condition met.                                                          *)
C9_BuyReturned ==
    /\ decision.action = "BUY"
    /\ decision.buyScore = 2
    /\ decision.sellScore = 1

(* C10 as stated: when neither score reaches 2, aggregateSignals returns   *)
(* WATCH with confidence 0.5 if exactly one side scores >= 1 and HOLD with *)
(* confidence 0.5 in every other case, both sides scoring exactly 1        *)
(* included.                                                               *)
C10_ExactlyOneSide ==
    (build = "bot" /\ decision # NoDecision
        /\ decision.buyScore < 2 /\ decision.sellScore < 2) =>
        /\ decision.confidence = 500
        /\ decision.action =
              IF (decision.buyScore >= 1) # (decision.sellScore >= 1)
                  THEN "WATCH" ELSE "HOLD"

(* C10 as the code has it: when neither score reaches 2, aggregateSignals  *)
(* returns WATCH with confidence 0.5 if at least one side scores >= 1      *)
(* (both sides scoring exactly 1 included) and HOLD with confidence 0.5    *)
(* only when both score 0.                                                 *)
C10_AnySide ==
    (build = "bot" /\ decision # NoDecision
        /\ decision.buyScore < 2 /\ decision.sellScore < 2) =>
        /\ decision.confidence = 500
        /\ decision.action =
              IF decision.buyScore >= 1 \/ decision.sellScore >= 1
                  THEN "WATCH" ELSE "HOLD"

(* C10, its case: both sides score exactly 1 and the Decision is WATCH.    *)
C10_BothSidesOnce ==
    /\ build = "bot"
    /\ decision.buyScore = 1
    /\ decision.sellScore = 1
    /\ decision.action = "WATCH"
    /\ decision.confidence = 500

(* The action of the if / else-if chain, before the overrides              *)
(* (rules.ts lines 108-122), of the Decision just computed.                *)
Preliminary ==
    determineAction(decision.buyScore, decision.sellScore, rin).action

(* C11: a Decision whose preliminary action is SELL ends as WATCH when the *)
(* instrument is held and L2.probability < 0.7 or L3.sharpeRatio > -0.5;   *)
(* it stays SELL when the instrument is held with L2.probability >= 0.7    *)
(* and L3.sharpeRatio <= -0.5, and whenever the instrument is not held.    *)
C11_HoldingOverride ==
    (decision # NoDecision /\ Preliminary = "SELL") =>
        decision.action =
            IF rin.isHolding /\ (rin.l2 < 700 \/ rin.sharpe > -500)
                THEN "WATCH" ELSE "SELL"

(* C11, its cases: a held instrument's SELL is downgraded by one guard     *)
(* alone (L2.probability at 0.7, Sharpe above -0.5).                       *)
C11_HeldSellDowngraded ==
    /\ build = "bot"
    /\ decision # NoDecision
    /\ Preliminary = "SELL"
    /\ rin.isHolding
    /\ rin.l2 = 700
    /\ rin.sharpe = -400
    /\ decision.action = "WATCH"

(* C20: for a WATCH Decision shouldNotify is true exactly when the stored  *)
(* previous Decision's action is not WATCH (no stored previous Decision    *)
(* counts as not WATCH); for a HOLD Decision it is false.                  *)
C20_WatchHoldGate ==
    notify # "none" =>
        /\ (sig.action = "WATCH" =>
              (notify = "yes" <=> previous.action # "WATCH"))
        /\ (sig.action = "HOLD" => notify = "no")

(* C20, its cases: a WATCH computed by the rules is notified with no       *)
(* previous Decision stored.                                               *)
C20_FirstWatchNotified ==
    /\ build = "bot"
    /\ decision.action = "WATCH"
    /\ sig = SignalOf(decision)
    /\ previous = NoPrevious
    /\ notify = "yes"

Conflict == decision.buyScore >= 2 /\ decision.sellScore >= 2

Warned(w) == \E i \in DOMAIN decision.warnings : decision.warnings[i] = w

(* C12: whenever buyScore >= 2 and sellScore >= 2 the Decision returned by *)
(* aggregateSignals has action WATCH and its warnings, as truncated to 3,  *)
(* contain the conflict warning, whatever the number of upcoming events of *)
(* importance >= 2 and whether or not a drawdown warning is present.       *)
C12_ConflictWarned ==
    (build = "bot" /\ decision # NoDecision /\ Conflict) =>
        (decision.action = "WATCH" /\ Warned("conflict"))

(* C12, where it goes wrong: a conflict Decision is WATCH, but three       *)
(* earlier warnings fill the list and the conflict warning is cut.         *)
C12_ConflictWarningCut ==
    /\ build = "bot"
    /\ decision # NoDecision
    /\ Conflict
    /\ decision.action = "WATCH"
    /\ Len(decision.warnings) = 3
    /\ ~Warned("conflict")

C15_FaultIsolated ==
    [][\A p \in Procs :
          (faults' > faults /\ proc[p].pc \in {"loop", "quota", "log"}) =>
              (proc'[p].pc = "loop" /\ proc'[p].todo = Tail(proc[p].todo))]_vars

(* C15, where it goes wrong: the cooldown or quota read for the first of   *)
(* two results threw, the invocation is in handleCronTrigger's catch and   *)
(* the second result was never looked at.                                  *)
C15_RestNeverProcessed ==
    /\ build = "bot"
    /\ faults = 1
    /\ proc[1].pc = "job_failed"
    /\ Len(proc[1].todo) = 2

(* C16: handleCronTrigger never propagates an exception to its caller:     *)
(* whatever fails inside the job, the invocation returns normally.         *)
C16_NeverPropagates ==
    \A p \in Procs : proc[p].pc # "rejected"

(* C16, where it goes wrong: in the root tree the emergency-stop read      *)
(* threw and handleCronTrigger's promise rejected.                         *)
C16_RootRejected ==
    /\ build = "root"
    /\ faults = 1
    /\ proc[1].pc = "rejected"
    /\ proc[1].todo = <<>>

(* C17: every scheduled invocation (emergency stop clear) runs exactly the *)
(* one job the UTC wall clock selects: the JP daily summary at 07:00, the  *)
(* US daily summary at 22:00, the mutual-fund price refresh at 13:00, the  *)
(* weekly summary at Saturday 10:00, and at every other time a monitoring  *)
(* tick if and only if the build's market predicates say a market is open. *)
C17_RoutedByClock ==
    (ran # "none" /\ ~emergencyStop) =>
        ran = IF now.hour = 7 /\ now.minute = 0 THEN "jp_summary"
              ELSE IF now.hour = 22 /\ now.minute = 0 THEN "us_summary"
              ELSE IF now.hour = 13 /\ now.minute = 0 THEN "fund_refresh"
              ELSE IF now.day = 6 /\ now.hour = 10 /\ now.minute = 0
                  THEN "weekly_summary"
              ELSE IF gateJapanOpen(build, now) \/ gateUSOpen(build, now)
                  THEN "monitor"
              ELSE "nothing"

(* C17, where it goes wrong: Saturday 10:00 UTC in the bot tree, and no    *)
(* job ran.                                                                *)
C17_NoWeeklySummary ==
    /\ build = "bot"
    /\ ~emergencyStop
    /\ now = [day |-> 6, hour |-> 10, minute |-> 0]
    /\ ran = "nothing"

(* C18: at every instant of the week isJapanMarketOpen is true exactly on  *)
(* Monday-Friday 09:00 <= JST < 15:00 and isUSMarketOpen exactly on        *)
(* Monday-Friday 09:30 <= EST < 16:00, and a monitoring tick does its work *)
(* only when one of the two markets is open in that sense.                 *)
C18_MarketHours ==
    LET jst    == getJSTDate(now)
        est    == getESTDate(now)
        jpOpen == jst.day \in 1..5 /\ jst.hour >= 9 /\ jst.hour < 15
        usOpen == /\ est.day \in 1..5
                  /\ est.hour * 60 + est.minute >= 9 * 60 + 30
                  /\ est.hour < 16
    IN  ran # "none" =>
            /\ gateJapanOpen(build, now) <=> jpOpen
            /\ gateUSOpen(build, now) <=> usOpen
            /\ ran = "monitor" => (jpOpen \/ usOpen)

(* C18, where it goes wrong: Monday 21:00 UTC (Tuesday 06:00 JST, Monday   *)
(* 16:00 EST, both markets closed) and the bot tree's monitoring tick      *)
(* does its work.                                                          *)
C18_TickAfterClose ==
    /\ build = "bot"
    /\ now = [day |-> 1, hour |-> 21, minute |-> 0]
    /\ ran = "monitor"

(* C13: for an instrument whose stored series has fewer than 60 bars at    *)
(* tick time the tick emits no Decision: no signal-history row is          *)
(* appended, the previous-Decision snapshot is not written and nothing is  *)
(* handed on for notification.                                             *)
C13_NoDecisionUnder60 ==
    (effects.called /\ bars < 60) =>
        /\ decision = NoDecision
        /\ ~effects.historyRow
        /\ ~effects.snapshotPut
        /\ \A p \in Procs : proc[p].todo = <<>>

(* C13, where it goes wrong: the root tree computed a Decision from 59     *)
(* bars and wrote it as the instrument's snapshot.                         *)
C13_RootWroteSnapshot ==
    /\ build = "root"
    /\ bars = 59
    /\ decision.action = "HOLD"
    /\ effects.snapshotPut
    /\ snapshot = [action |-> "HOLD", confidence |-> 0]

(* the signal worker's step of a tick *)
GenStep == proc[1].pc \in {"mon_signals", "r_signals"} /\ proc'[1].pc # proc[1].pc

(* a retry of the refused notification is due: the instrument yields the   *)
(* Decision of the refused attempt again and is handed to the notifier,    *)
(* and no cooldown key stops it in the loop                                *)
RetryDue ==
    /\ (GenStep /\ sig' = failed) => proc'[1].todo # <<>>
    /\ (proc[1].pc = "loop" /\ proc[1].todo # <<>> /\ sig = failed) =>
           ~cooldown[TickSymbol]

(* C14 as stated: once the transport has refused a gated-in notification,  *)
(* the next tick on which the instrument yields the same Decision (same    *)
(* action and confidence), whatever it yielded in between, has the gate    *)
(* attempt the notification again.                                         *)
C14_RetriedWhenSameAgain ==
    [][(failed # NoSignal /\ ~emergencyStop
           /\ dailyCount < MAX_NOTIFICATIONS_PER_DAY) => RetryDue]_vars

(* C14 as the code has it: once the transport has refused a gated-in       *)
(* notification, the gate attempts it again on the following tick if the   *)
(* instrument yields the same Decision there, no other Decision having     *)
(* been computed for it in between.                                        *)
C14_RetriedOnFollowingTick ==
    [][(failed # NoSignal /\ fresh /\ ~emergencyStop
           /\ dailyCount < MAX_NOTIFICATIONS_PER_DAY) => RetryDue]_vars

(* C14, its case: the tick after a refused BUY yields the same BUY and the *)
(* notifier is about to send it again.                                     *)
C14_RetryInFlight ==
    /\ build = "bot"
    /\ failed # NoSignal
    /\ fresh
    /\ sig = failed
    /\ runs >= 2
    /\ proc[1].pc = "send"
    /\ Head(proc[1].todo).action = "BUY"

(* C21: a system alert raised because a tick failed at tick level is       *)
(* subject to the gate: at most one alert is handed to the transport per   *)
(* failing tick, and none while the emergency-stop flag is set or once the *)
(* day's counter has reached MAX_NOTIFICATIONS_PER_DAY.                    *)
C21_FailureAlertGated ==
    [][\A p \in Procs :
          /\ (proc[p].pc = "job_failed" /\ proc'[p].pc = "fail_log")
                => (~emergencyStop /\ dailyCount < MAX_NOTIFICATIONS_PER_DAY)
          /\ (proc[p].pc \in {"fail_log", "fail_done"} /\ proc'[p] # proc[p])
                => proc'[p].pc \in {"fail_done", "idle"}]_vars

(* C21, where it goes wrong: the daily summary job failed in               *)
(* fetchAllPrices while the emergency stop was set, and the transport has  *)
(* accepted the alert.                                                     *)
C21_AlertUnderStop ==
    /\ build = "bot"
    /\ emergencyStop
    /\ proc[1].job = "summary"
    /\ proc[1].pc = "fail_log"
    /\ proc[1].resp = "ok"

FlipSuppressed ==
    /\ prior.action = "BUY"
    /\ prior.previous = "SELL"
    /\ prior.notify = "no"

(* C25: the previous-Decision snapshot used for hysteresis is overwritten  *)
(* with the tick's Decision whether or not the gate notified; so after a   *)
(* BUY that follows a SELL is suppressed for lacking the hysteresis        *)
(* margin, an identical BUY on the next tick (the snapshot not having      *)
(* expired) is compared against previous = BUY and is notified exactly     *)
(* when its confidence >= 0.5: the margin applies only on the first tick   *)
(* after the opposite action.                                              *)
C25_MarginFirstTickOnly ==
    /\ [][(GenStep /\ decision' # NoDecision)
              => snapshot' = SignalOf(decision')]_vars
    /\ []((FlipSuppressed /\ sig.action = "BUY"
              /\ sig.confidence = prior.confidence /\ previous # NoPrevious)
            => /\ previous.action = "BUY"
               /\ notify = YesNo(sig.confidence >= 500))

(* C25, its case: a BUY at 0.55 was suppressed after a SELL, the next tick *)
(* yields it again, shouldNotify lets it through and the notifier is about *)
(* to send it.                                                             *)
C25_SecondBuyNotified ==
    /\ build = "bot"
    /\ FlipSuppressed
    /\ sig = [action |-> "BUY", confidence |-> 550]
    /\ prior.confidence = 550
    /\ previous.action = "BUY"
    /\ notify = "yes"
    /\ proc[1].pc = "send"

(* v is the number n / d *)
IsNumber(v, n, d) == v.kind = "number" /\ v.num * d = n * v.den

Changes == [i \in 1..(Len(closes) - 1) |-> closes[i + 1] - closes[i]]

AllFlat == \A i \in DOMAIN Changes : Changes[i] = 0

LastAllUp ==
    \A i \in DOMAIN Changes : i > Len(Changes) - RSI_PERIOD => Changes[i] > 0

(* C23: for every close series with at least 15 bars, rsi(closes, 14) lies *)
(* in [0, 100]; it equals 100 when every one of the last 14 changes is     *)
(* positive, and equals 50 when the series is all-flat.                    *)
C23_RsiRange ==
    (out.fn = "rsi" /\ Len(closes) >= RSI_PERIOD + 1) =>
        /\ out.value.kind = "number"
        /\ out.value.num >= 0
        /\ out.value.num <= 100 * out.value.den
        /\ LastAllUp => IsNumber(out.value, 100, 1)
        /\ AllFlat => IsNumber(out.value, 50, 1)

(* C23, where it goes wrong: fifteen equal closes, and the bot tree's rsi  *)
(* returns 100.                                                            *)
C23_FlatGives100 ==
    /\ build = "bot"
    /\ out.fn = "rsi"
    /\ Len(closes) = RSI_PERIOD + 1
    /\ AllFlat
    /\ IsNumber(out.value, 100, 1)

(* C24: for every close series and period, sma returns the arithmetic mean *)
(* of the last period closes when the series has at least period elements, *)
(* returns the arithmetic mean of all closes when the series is shorter,   *)
(* and never throws: it returns a value for the empty series too.          *)
C24_SmaMean ==
    out.fn = "sma" =>
        /\ out.value.kind \in {"number", "NaN", "undefined"}
        /\ Len(closes) >= period =>
               IsNumber(out.value, SumSeq(sliceLast(closes, period)), period)
        /\ (0 < Len(closes) /\ Len(closes) < period) =>
               IsNumber(out.value, SumSeq(closes), Len(closes))

(* C24, where it goes wrong: three rising closes 100, 101, 102 and period  *)
(* 14: the bot tree's sma returns the last close, 102, not the mean 101.   *)
C24_ShortGivesLast ==
    /\ build = "bot"
    /\ out.fn = "sma"
    /\ closes = <<100, 101, 102>>
    /\ period = 14
    /\ IsNumber(out.value, 102, 1)

(* C26: under two overlapping invocations the daily counter never          *)
(* undercounts: once both have finished, the counter of the UTC day equals *)
(* the number of successful notifications counted against that day         *)
(* (incrementDailyNotifyCount loses no update).                            *)
C26_NoLostIncrement == AllIdle => dailyCount = counted

(* C26, where it goes wrong: two overlapping invocations each sent one     *)
(* notification, both read the counter before either put it, and the day's *)
(* counter stands at 1 after both have finished.                           *)
C26_IncrementLost ==
    /\ AllIdle
    /\ runs = 2
    /\ counted = 2
    /\ dailyCount = 1

(* C27: once set, the emergency-stop flag stays set through every later    *)
(* tick, including after the UTC date changes and the daily counter starts *)
(* again from 0; it is cleared only by resetEmergencyStop or by the        *)
(* initialization job, and by no scheduled job: a step that leaves the     *)
(* flag clear is no step of an invocation and no change of date.           *)
C27_StopPersists ==
    [][emergencyStop =>
          \/ emergencyStop'
          \/ /\ proc' = proc
             /\ day' = day
             /\ dailyCount' = dailyCount]_vars

(* C27, its case: the flag was set on an earlier UTC date, the day's       *)
(* counter has started again from 0, and a monitoring tick is at its stop  *)
(* check with the flag still set.                                          *)
C27_StopAcrossDays ==
    /\ emergencyStop
    /\ day = 1
    /\ ~stopSetToday
    /\ dailyCount = 0
    /\ proc[1].job = "monitor"
    /\ proc[1].pc = "mon_stop"

(* C28: every signal notification accepted by the transport is followed    *)
(* within the same tick by setting the instrument's cooldown and           *)
(* incrementing the daily counter, even when the audit-log insert between  *)
(* the send and those two writes throws: the notifier leaves an accepted   *)
(* notification only through the counter's put, with the cooldown key set  *)
(* (unless its window has already ended).                                  *)
C28_AcceptedIsRecorded ==
    [][\A p \in Procs :
          (/\ proc[p].job = "monitor"
           /\ proc[p].pc \in {"log", "after_log", "setcd", "inc_read", "inc_put"}
           /\ proc[p].resp = "ok"
           /\ proc'[p].resp # "ok")
              => LET s == Head(proc[p].todo).symbolId IN
                 /\ proc[p].pc = "inc_put"
                 /\ cooldown'[s] \/ recentSends'[s] = 0]_vars

(* C28, where it goes wrong: the transport accepted the notification, the  *)
(* audit-log insert threw, and the loop went on with neither the cooldown  *)
(* key nor the counter written.                                            *)
C28_SentUnrecorded ==
    /\ build = "bot"
    /\ faults = 1
    /\ proc[1].pc = "loop"
    /\ recentSends["s1"] = 1
    /\ ~cooldown["s1"]
    /\ keyCovers["s1"] = 0
    /\ counted = 0
    /\ dailyCount = 0

(* C29: every audit-log row written for an outbound message of any kind    *)
(* (signal notification, daily summary, system alert) has success = true   *)
(* if and only if the transport reported success for that message.         *)
C29_RowMatchesTransport ==
    \A p \in Procs :
        proc[p].logged # NoRow =>
            (proc[p].logged.success <=> proc[p].resp = "ok")

(* C29, where it goes wrong: the transport refused the root tree's daily   *)
(* summary and its audit-log row says success.                             *)
C29_RefusedLoggedAsSent ==
    /\ build = "root"
    /\ proc[1].job = "summary"
    /\ proc[1].pc = "r_sum_done"
    /\ proc[1].resp = "fail"
    /\ proc[1].logged.success

(* where an invocation is about to fetch prices or to write durable state: *)
(* fetchAllPrices and generateHoldingsSignals of the bot tree's summary    *)
(* job (price bars, holding prices, signal-history rows, previous-Decision *)
(* snapshots), the fetch and signal generation of a monitoring tick, and   *)
(* savePortfolioSnapshot in sendDailySummary                               *)
WritePoints == {"sum_fetch", "mon_signals", "r_signals", "sum_store", "r_sum_store"}

(* C30: while the emergency-stop flag is set, a scheduled invocation       *)
(* leaves all durable and gating state unchanged: it performs no price     *)
(* fetch and writes no price bar, holding price, signal-history row,       *)
(* previous-Decision snapshot or portfolio snapshot, whichever job the     *)
(* wall clock selects, and it changes no cooldown key and no counter.      *)
C30_StoppedTouchesNothing ==
    [][\A p \in Procs :
          (emergencyStop /\ proc'[p] # proc[p]) =>
              /\ proc[p].pc \notin WritePoints
              /\ cooldown' = cooldown
              /\ dailyCount' = dailyCount]_vars

(* C30, where it goes wrong: the flag is set, the wall clock selected the  *)
(* bot tree's daily summary job, and fetchAllPrices and                    *)
(* generateHoldingsSignals have run before the first stop check.           *)
C30_FetchedWhileStopped ==
    /\ build = "bot"
    /\ emergencyStop
    /\ ~stopSetToday
    /\ proc[1].job = "summary"
    /\ proc[1].pc = "sum_stop"

====
